---- MODULE Spec2Model ----
(***************************************************************************)
(* tree-crasher: supervisor (main), fuzz worker (job) and oracle/triage    *)
(* (check) of crates/tree-crasher/src/lib.rs as a state machine.           *)
(*                                                                         *)
(* The external collaborators (the treereduce CmdCheck oracle, the         *)
(* tree-splicer Splicer, tree-sitter, the filesystem, the clock) are the   *)
(* environment: every result they can hand back to lib.rs is a             *)
(* nondeterministic choice in the action that calls them.                  *)
(***************************************************************************)
EXTENDS Integers, Sequences, FiniteSets, TLC

\* ---------------------------------------------------------------- bounds
MaxJobs == 2        \* largest --jobs value tried
MaxEntries == 2     \* largest number of entries in the seed directory
MaxRuns == 1        \* oracle children started in one behaviour of Spec
MaxIds == 2         \* candidates triaged (uuids drawn) in one behaviour
MaxSecs == 1        \* largest value of start.elapsed().as_secs() observed
\* BATCH is 100_000 and the report interval 10_00 in lib.rs; both are scaled
\* down here, keeping the report interval within a batch.
BATCH == 1
ReportEvery == 1

Workers == 1..MaxJobs
Ids == 1..MaxIds
Mutants == {"m1", "m2"}         \* byte strings the mutator can emit
Exts == {"out", "stdout", "stderr", "reduced.out"}
NoFile == "<absent>"
NoId == 0
Nil == "<none>"

\* what one directory entry of the seed directory turns out to be
EntryKinds == {"ok", "unreadable", "unparseable", "entry_err"}

VARIABLES
    args,            \* Args::parse(): debug, radamsa, jobs and the four
                     \* regex options; the build has the radamsa feature,
                     \* without it the field radamsa is absent and the
                     \* program is the one with radamsa = FALSE, less the
                     \* warning of line 381
    chk,             \* the `chk` local of main: what make_check returned
    dir,             \* the seed directory: readable?, and the entries the
                     \* fs::read_dir iterator has still to yield
    mainPc,          \* position of main
    next_entry,      \* ordinal of the entry the iterator yields next
    files,           \* the corpus: the seeds inserted into `files`, named in
                     \* the order of their insertion
    jobs,            \* the `jobs` local of main (0 until computed)
    spawned,         \* number of s.spawn calls done
    mainLog,         \* lines main wrote to stderr
    pc,              \* position of each worker
    i,               \* enumerate() index of the batch loop
    execs,           \* the `execs` local of job
    inp,             \* the candidate being checked
    interesting,     \* check's `interesting`
    code,            \* check's `code`
    sig,             \* check's `sig` (0 models None)
    stdout,          \* check's captured stdout (Nil once moved or dropped)
    stderr,          \* check's captured stderr
    uuid,            \* check's `i` (the Uuid), NoId outside triage
    reduced,         \* reduced.text handed back by the reducer
    log,             \* line the worker printed during the current check
    uuids,           \* uuids drawn so far
    disk,            \* the working directory: (id, ext) -> contents
    runs,            \* number of chk.start calls of all workers so far
    run_cap,         \* how many chk.start calls the behaviour is followed for
    probe            \* one run of the oracle on its own: output and verdict

wvars == <<pc, i, execs, inp, interesting, code, sig, stdout, stderr,
           uuid, reduced, log>>
mvars == <<args, chk, dir, mainPc, next_entry, files, jobs,
           spawned, mainLog, run_cap, probe>>
vars == <<mvars, wvars, uuids, disk, runs>>

\* -------------------------------------------------------------- helpers
Upd(f, w, v) == [f EXCEPT ![w] = v]

File(id, ext) == <<id, ext>>

\* fs::write(path, contents) that succeeds: create or overwrite
FsWrite(d, id, ext, contents) == [d EXCEPT ![File(id, ext)] = contents]

HasTriple(d, id) ==
    /\ d[File(id, "out")] # NoFile
    /\ d[File(id, "stdout")] # NoFile
    /\ d[File(id, "stderr")] # NoFile

\* Uuid::new_v4(): an identifier no earlier call returned
FreshIds == Ids \ uuids
\* NewV4 handing out one identifier again and again
NewV4_again == CHOOSE id \in Ids : \A other \in Ids : id <= other

NewV4 == CHOOSE id \in FreshIds : \A other \in FreshIds : id <= other

\* status.and_then(|s| s.code()).unwrap_or(-1)
CodeOf(status) == IF status.kind = "exited" THEN status.n ELSE -1
\* status.and_then(|s| s.signal()), 0 standing for None
SigOf(status) == IF status.kind = "signaled" THEN status.n ELSE 0

\* ------------------------------------------------------ the oracle's regexes
\* Option<String>::None
None == Nil
\* a pattern the regex crate rejects (an unclosed group)
BadRegex == "("
\* what the user can write after --interesting-stdout and the like
UserRegexes == {"Error", BadRegex}
RegexOpt == {None} \cup UserRegexes

\* lines 146-156, joined with "|"
DefaultInteresting == "AddressSanitizer|Fatal|DCHECK|Check"
DefaultUninteresting ==
    "RangeError|SyntaxError|ReferenceError|TypeError|URIError|EvalError|InternalError"

\* Compiles with every pattern accepted
Compiles_any(r) == TRUE

\* Regex::new(r) is Ok
Compiles(r) == r # BadRegex

\* the four regex options of Args (lines 53-85)
RegexFields == {"interesting_stdout", "interesting_stderr",
                "uninteresting_stdout", "uninteresting_stderr"}
NoRegexes == [f \in RegexFields |-> None]

\* lines 74, 83 and 342-343: clap's `requires`
Requires(x) ==
    /\ x.uninteresting_stdout # None => x.interesting_stdout # None
    /\ x.uninteresting_stderr # None => x.interesting_stderr # None

\* every choice of the four options clap accepts
RegexArgs == {x \in [RegexFields -> RegexOpt] : Requires(x)}

\* the choices followed through the whole program: the defaults, and each
\* of the four options in turn holding a pattern that does not compile
SpecRegexArgs ==
    {NoRegexes,
     [NoRegexes EXCEPT !.interesting_stdout = BadRegex],
     [NoRegexes EXCEPT !.interesting_stderr = BadRegex],
     [NoRegexes EXCEPT !.interesting_stdout = "Error",
                       !.uninteresting_stdout = BadRegex],
     [NoRegexes EXCEPT !.interesting_stderr = "Error",
                       !.uninteresting_stderr = BadRegex]}

\* Args::parse() with the options d, r, j and the regex options x
ArgsOf(d, r, j, x) ==
    [debug |-> d, radamsa |-> r, jobs |-> j,
     interesting_stdout |-> x.interesting_stdout,
     interesting_stderr |-> x.interesting_stderr,
     uninteresting_stdout |-> x.uninteresting_stdout,
     uninteresting_stderr |-> x.uninteresting_stderr]

\* line 189: interesting_exit_codes.extend(128..256)
ExitCodes(user) == user \cup 128..255

\* OrDefault with nothing installed when the user gave no pattern
OrDefault_none(opt, default) == opt

\* lines 158-188, one `match`: the user's pattern, else the default one
OrDefault(opt, default) == IF opt # None THEN opt ELSE default

NoChk == [state |-> "none"]
NoProbe == [state |-> "none"]
ChkErr(context) == [state |-> "err", context |-> context]

\* lines 158-203: make_check; each Regex::new(..)? returns the first error
make_check(a) ==
    LET so == OrDefault(a.interesting_stdout, DefaultInteresting)
        se == OrDefault(a.interesting_stderr, DefaultInteresting)
        uo == OrDefault(a.uninteresting_stdout, DefaultUninteresting)
        ue == OrDefault(a.uninteresting_stderr, DefaultUninteresting)
    IN  IF so # None /\ ~Compiles(so)
        THEN ChkErr("Invalid interesting stdout regex")
        ELSE IF se # None /\ ~Compiles(se)
        THEN ChkErr("Invalid interesting stderr regex")
        ELSE IF uo # None /\ ~Compiles(uo)
        THEN ChkErr("Invalid uninteresting stdout regex")
        ELSE IF ue # None /\ ~Compiles(ue)
        THEN ChkErr("Invalid uninteresting stderr regex")
        ELSE [state |-> "ok",
              interesting_exit_codes |-> ExitCodes({}),
              stdout_regex |-> so, stderr_regex |-> se,
              un_stdout_regex |-> uo, un_stderr_regex |-> ue,
              debug |-> a.debug]

\* the literals a pattern of the model searches for
Alternatives(r) ==
    CASE r = DefaultInteresting ->
            {"AddressSanitizer", "Fatal", "DCHECK", "Check"}
      [] r = DefaultUninteresting ->
            {"RangeError", "SyntaxError", "ReferenceError", "TypeError",
             "URIError", "EvalError", "InternalError"}
      [] r = None -> {}
      [] OTHER -> {r}

\* captured outputs, and the literals each contains as a substring
Texts == {"", "Error", "TypeError"}
Parts(text) ==
    CASE text = "" -> {}
      [] text = "TypeError" -> {"TypeError", "Error"}
      [] OTHER -> {text}

\* Regex::is_match: an unanchored search
Matches(r, text) == Alternatives(r) \cap Parts(text) # {}

\* the verdict of CmdCheck for a child that exited with `c`: an interesting
\* exit code, or an interesting pattern found in stdout (stderr) with no
\* uninteresting pattern found in it
IsInteresting(k, c, so, se) ==
    \/ c \in k.interesting_exit_codes
    \/ /\ k.stdout_regex # None
       /\ Matches(k.stdout_regex, so)
       /\ k.un_stdout_regex = None \/ ~Matches(k.un_stdout_regex, so)
    \/ /\ k.stderr_regex # None
       /\ Matches(k.stderr_regex, se)
       /\ k.un_stderr_regex = None \/ ~Matches(k.un_stderr_regex, se)

\* what a child that exits can hand back: exit code, stdout, stderr
ProbeOutputs == [code : {0, 134}, stdout : Texts, stderr : Texts]

\* lines 376-386: the `jobs` local of main (the same value with and without
\* the radamsa feature)
JobsOf(a) == IF a.debug THEN 1 ELSE a.jobs

\* lines 379-382: does main print the radamsa warning
WarnsRadamsa(a) == a.debug /\ a.jobs # 1

\* job takes the radamsa loop
RadamsaMode == args.radamsa

\* what chk.wait_with_output can hand back in Ok(..): the raw status is None
\* after a timeout (and the run is then not interesting), else the child's
\* exit status; the verdict of a finished child is the oracle's own.
Statuses == {[kind |-> "timeout", n |-> 0],
             [kind |-> "exited", n |-> 1],
             [kind |-> "signaled", n |-> 6],
             [kind |-> "signaled", n |-> 11]}
Stdouts == {"Fatal"}
Stderrs == {"trace"}
WaitOutcomes ==
    {o \in [interesting : BOOLEAN, status : Statuses,
            stdout : Stdouts, stderr : Stderrs] :
        o.status.kind = "timeout" => ~o.interesting}

\* what the reducer can hand back in Ok((reduced, _))
Reductions(bytes) == {"min"}

\* one line a worker prints (eprintln!/println!, or the panic hook)
Line(text, n) == [line |-> text, n |-> n]
NoLine == Line(Nil, 0)

\* Triages without the early return of lines 225-227
Triages_abort(intr, s) == intr \/ s # 0

\* Triages on the oracle's verdict alone
Triages_verdict(intr, s) == intr /\ s # 6

\* Triages of every run but an aborted one
Triages_all(intr, s) == s # 6

\* lines 223-227: does check go on to persist and reduce the candidate
Triages(intr, s) == (intr \/ s # 0) /\ s # 6

\* lines 224-231: the line check prints once it triages
TriageLine(s) == IF s # 0 THEN Line("signal", s) ELSE Line("interesting!", 0)

\* OutBytes with the wrong buffer handed to the first write
OutBytes_stdout(candidate, so, se) == so

\* line 234: the bytes written to crash-<id>.out
OutBytes(candidate, so, se) == candidate

\* line 241: the bytes of treereduce::Original
OriginalBytes(candidate, so, se) == candidate

\* TriageSteps with the reduction started before the third write
TriageSteps_early ==
    <<"write_out", "write_stdout", "parse", "reduce", "write_stderr",
      "write_reduced">>

\* lines 234-253: the order of the triage steps
TriageSteps == <<"write_out", "write_stdout", "write_stderr", "parse",
                 "reduce", "write_reduced">>
StepIndex(step) == CHOOSE k \in 1..Len(TriageSteps) : TriageSteps[k] = step

\* line 331: what start.elapsed().as_secs() can be after `done` counted
\* executions of the batch: any number of whole seconds, and at least one once
\* an earlier report of the batch has divided by it
Elapsed(done) == (IF done >= ReportEvery THEN 1 ELSE 0)..MaxSecs

\* BatchEnds with the bound tested one mutant too late
BatchEnds_late(n) == n > BATCH

\* line 326: `if i == BATCH { break; }`
BatchEnds(n) == n = BATCH

\* NoFilesProvided without the check of line 270
NoFilesProvided_never(fs) == FALSE

\* line 270: job gives up at once
NoFilesProvided(fs) == fs = {}

\* OnEntry with a parse error swallowed like a read error
OnEntry_lenient(kind) ==
    CASE kind = "entry_err" -> "fail"
      [] kind = "unreadable" -> "skip"
      [] kind = "unparseable" -> "skip"
      [] OTHER -> "insert"

\* lines 353-358: what main does with one directory entry
OnEntry(kind) ==
    CASE kind = "entry_err" -> "fail"
      [] kind = "unreadable" -> "skip"
      [] kind = "unparseable" -> "fail"
      [] OTHER -> "insert"

\* ------------------------------------------------------------------ Init
Dirs == [readable : BOOLEAN,
         entries : UNION {[1..n -> EntryKinds] : n \in 0..MaxEntries}]

\* what Init leaves open: the command line, the seed directory and the
\* number of oracle runs the behaviour is followed for
Start0(a, d, cap) ==
    /\ args = a
    /\ dir = d
    /\ run_cap = cap
    /\ chk = NoChk
    /\ probe = NoProbe
    /\ mainPc = "read_dir"
    /\ next_entry = 1
    /\ files = {}
    /\ jobs = 0
    /\ spawned = 0
    /\ mainLog = {}
    /\ pc = [w \in Workers |-> "unspawned"]
    /\ i = [w \in Workers |-> 0]
    /\ execs = [w \in Workers |-> 0]
    /\ inp = [w \in Workers |-> Nil]
    /\ interesting = [w \in Workers |-> FALSE]
    /\ code = [w \in Workers |-> 0]
    /\ sig = [w \in Workers |-> 0]
    /\ stdout = [w \in Workers |-> Nil]
    /\ stderr = [w \in Workers |-> Nil]
    /\ uuid = [w \in Workers |-> NoId]
    /\ reduced = [w \in Workers |-> Nil]
    /\ log = [w \in Workers |-> NoLine]
    /\ uuids = {}
    /\ disk = [f \in Ids \X Exts |-> NoFile]
    /\ runs = 0

Init ==
    \E d \in BOOLEAN, r \in BOOLEAN, j \in 1..MaxJobs, x \in SpecRegexArgs,
       seeds \in Dirs :
        /\ ~seeds.readable => seeds.entries = <<>>
        /\ Start0(ArgsOf(d, r, j, x), seeds, MaxRuns)

\* ------------------------------------------------------------------ main
\* lines 341-351: parse the arguments, open the seed directory
ReadDir ==
    /\ mainPc = "read_dir"
    /\ mainLog' = (IF args.debug THEN mainLog \cup {"Loading testcases..."}
                   ELSE mainLog)
                  \cup (IF dir.readable THEN {}
                        ELSE {"Error: When reading tests from"})
    /\ mainPc' = IF dir.readable THEN "loading" ELSE "err"
    /\ UNCHANGED <<args, chk, dir, next_entry, files, jobs, spawned, run_cap,
                   probe, wvars, uuids, disk, runs>>

\* lines 350-359: one turn of the loop over the directory entries
LoadEntry ==
    /\ mainPc = "loading"
    /\ dir.entries # <<>>
    /\ LET todo == OnEntry(Head(dir.entries)) IN
         \/ /\ todo = "fail"        \* `entry?` or `parse(language, &s)?`
            /\ mainPc' = "err"
            /\ mainLog' = mainLog \cup
                 {IF Head(dir.entries) = "unparseable"
                  THEN "Error: Failed to parse code"
                  ELSE "Error: directory entry"}
            /\ UNCHANGED <<files, next_entry, dir>>
         \/ /\ todo = "skip"        \* read_file is Err: nothing inserted
            /\ next_entry' = next_entry + 1
            /\ dir' = [dir EXCEPT !.entries = Tail(@)]
            /\ UNCHANGED <<files, mainPc, mainLog>>
         \/ /\ todo = "insert"
            /\ files' = files \cup {Cardinality(files) + 1}
            /\ next_entry' = next_entry + 1
            /\ dir' = [dir EXCEPT !.entries = Tail(@)]
            /\ UNCHANGED <<mainPc, mainLog>>
    /\ UNCHANGED <<args, chk, jobs, spawned, run_cap, probe, wvars, uuids,
                   disk, runs>>

\* CorpusBuilt with the oracle built before the seed directory is opened
CorpusBuilt_first == mainPc = "read_dir"

\* lines 350-360: the loop over the entries has run to its end, make_check
\* is what main does next
CorpusBuilt == mainPc = "loading" /\ dir.entries = <<>>

\* lines 359-386: the loop over the entries is over (its iterator is
\* dropped); build the oracle, the node types, the worker count
MakeCheck ==
    /\ CorpusBuilt
    /\ next_entry' = 0
    /\ chk' = make_check(args)
    /\ IF chk'.state = "err"
       THEN /\ mainPc' = "err"
            /\ mainLog' = mainLog \cup {"Error: " \o chk'.context}
            /\ UNCHANGED jobs
       ELSE /\ mainPc' = "spawn"
            /\ jobs' = JobsOf(args)
            /\ mainLog' = mainLog
                 \cup (IF args.debug THEN {"Spawning threads..."} ELSE {})
                 \cup (IF WarnsRadamsa(args)
                       THEN {"[WARN] Radamsa can only be used with one thread."}
                       ELSE {})
    /\ UNCHANGED <<args, dir, files, spawned, run_cap, probe, wvars, uuids,
                   disk, runs>>

\* lines 388-399: one s.spawn
SpawnWorker ==
    /\ mainPc = "spawn"
    /\ spawned < jobs
    /\ spawned' = spawned + 1
    /\ pc' = Upd(pc, spawned + 1, "job")
    /\ UNCHANGED <<args, chk, dir, mainPc, next_entry, files, jobs, mainLog,
                   run_cap, probe, i, execs, inp, interesting, code, sig,
                   stdout, stderr, uuid, reduced, log, uuids, disk, runs>>

\* AllJoined with the scope left while threads still run
AllJoined_detached == TRUE

\* line 400: every thread the scope spawned has ended
AllJoined == \A w \in 1..spawned : pc[w] \in {"returned", "panicked"}

\* lines 387-402: the scope joins every thread it spawned, re-raises a panic
ScopeExit ==
    /\ mainPc = "spawn"
    /\ spawned = jobs
    /\ AllJoined
    /\ mainPc' = IF \E w \in 1..spawned : pc[w] = "panicked"
                 THEN "panicked" ELSE "done"
    /\ UNCHANGED <<args, chk, dir, next_entry, files, jobs, spawned, mainLog,
                   run_cap, probe, wvars, uuids, disk, runs>>

\* ---------------------------------------------------------------- worker
\* an unwrap on Err, or a division by zero, at source line `at`: the panic
\* hook prints its message, unwinding drops the locals, the thread ends
Panics(w, at) ==
    /\ at \in {220, 234, 235, 236, 237, 253, 333}
    /\ pc' = Upd(pc, w, "panicked")
    /\ log' = Upd(log, w, Line("panicked", 0))
    /\ i' = Upd(i, w, 0)
    /\ execs' = Upd(execs, w, 0)
    /\ inp' = Upd(inp, w, Nil)
    /\ interesting' = Upd(interesting, w, FALSE)
    /\ code' = Upd(code, w, 0)
    /\ sig' = Upd(sig, w, 0)
    /\ stdout' = Upd(stdout, w, Nil)
    /\ stderr' = Upd(stderr, w, Nil)
    /\ uuid' = Upd(uuid, w, NoId)
    /\ reduced' = Upd(reduced, w, Nil)

\* where check returns to: line 298 (radamsa loop) or line 330
RetPc == IF RadamsaMode THEN "radamsa" ELSE "count"

\* check returns after a triage (lines 251-257): what it no longer needs is
\* gone, the return value and the last line printed stay until job goes on
ReturnsFromTriage(w) ==
    /\ pc' = Upd(pc, w, RetPc)
    /\ inp' = Upd(inp, w, Nil)
    /\ uuid' = Upd(uuid, w, NoId)
    /\ reduced' = Upd(reduced, w, Nil)

\* the step after `step` in check's triage; the last one returns
NextStep(step) ==
    IF StepIndex(step) = Len(TriageSteps) THEN RetPc
    ELSE TriageSteps[StepIndex(step) + 1]

\* lines 270-275 and 301: entry of job
JobEnter(w) ==
    /\ pc[w] = "job"
    /\ IF NoFilesProvided(files)
       THEN /\ pc' = Upd(pc, w, "returned")
            /\ log' = Upd(log, w, Line("No files provided.", 0))
       ELSE /\ pc' = Upd(pc, w, IF RadamsaMode THEN "radamsa" ELSE "batch")
            /\ UNCHANGED log
    /\ UNCHANGED <<mvars, i, execs, inp, interesting, code, sig, stdout,
                   stderr, uuid, reduced, uuids, disk, runs>>

\* lines 279-297: one turn of the radamsa loop up to the call of check
Radamsa(w) ==
    /\ pc[w] = "radamsa"
    /\ \E mutant \in Mutants : inp' = Upd(inp, w, mutant)
    /\ pc' = Upd(pc, w, "start")
    /\ interesting' = Upd(interesting, w, FALSE)
    /\ code' = Upd(code, w, 0)
    /\ sig' = Upd(sig, w, 0)
    /\ uuid' = Upd(uuid, w, NoId)
    /\ log' = Upd(log, w, NoLine)
    /\ UNCHANGED <<mvars, i, execs, stdout, stderr, reduced, uuids, disk,
                   runs>>

\* lines 302-324: draw the parameters, start the clock and the Splicer
NewBatch(w) ==
    /\ pc[w] = "batch"
    /\ pc' = Upd(pc, w, "iter")
    /\ i' = Upd(i, w, 0)
    /\ execs' = Upd(execs, w, 0)
    /\ UNCHANGED <<mvars, inp, interesting, code, sig, stdout, stderr, uuid,
                   reduced, log, uuids, disk, runs>>

\* lines 325-328: the Splicer is asked for the next mutant
Iter(w) ==
    /\ pc[w] = "iter"
    /\ \/ /\ \/ TRUE                          \* the iterator is exhausted
             \/ BatchEnds(i[w])               \* `break`
          /\ pc' = Upd(pc, w, "batch")
          /\ i' = Upd(i, w, 0)
          /\ execs' = Upd(execs, w, 0)
          /\ UNCHANGED inp
       \/ /\ ~BatchEnds(i[w])
          /\ \E out \in Mutants : inp' = Upd(inp, w, out)
          /\ pc' = Upd(pc, w, "start")
          /\ UNCHANGED <<i, execs>>
    /\ log' = Upd(log, w, NoLine)
    /\ UNCHANGED <<mvars, interesting, code, sig, stdout, stderr, uuid,
                   reduced, uuids, disk, runs>>

\* lines 213-219: chk.start(inp)
Start(w) ==
    /\ pc[w] = "start"
    /\ runs < run_cap
    /\ runs' = runs + 1
    /\ \/ /\ pc' = Upd(pc, w, RetPc)          \* Err(e)
          /\ log' = Upd(log, w, Line("Problem when running target", 0))
          /\ code' = Upd(code, w, -1)
          /\ inp' = Upd(inp, w, Nil)
       \/ /\ pc' = Upd(pc, w, "wait")         \* Ok(s)
          /\ UNCHANGED <<log, code, inp>>
    /\ UNCHANGED <<mvars, i, execs, interesting, sig, stdout, stderr, uuid,
                   reduced, uuids, disk>>

\* lines 220-233: the child ends; classify, log, draw the identifier
Wait(w) ==
    /\ pc[w] = "wait"
    /\ \/ /\ Panics(w, 220)                   \* Err(..).unwrap()
          /\ UNCHANGED uuids
       \/ /\ \E o \in WaitOutcomes :
               /\ interesting' = Upd(interesting, w, o.interesting)
               /\ code' = Upd(code, w, CodeOf(o.status))
               /\ sig' = Upd(sig, w, SigOf(o.status))
               /\ IF Triages(o.interesting, SigOf(o.status))
                  THEN /\ FreshIds # {}
                       /\ log' = Upd(log, w, TriageLine(SigOf(o.status)))
                       /\ uuid' = Upd(uuid, w, NewV4)
                       /\ uuids' = uuids \cup {NewV4}
                       /\ stdout' = Upd(stdout, w, o.stdout)
                       /\ stderr' = Upd(stderr, w, o.stderr)
                       /\ pc' = Upd(pc, w, TriageSteps[1])
                       /\ UNCHANGED inp
                  ELSE /\ pc' = Upd(pc, w, RetPc)
                       /\ inp' = Upd(inp, w, Nil)
                       /\ UNCHANGED <<log, uuid, uuids, stdout, stderr>>
          /\ UNCHANGED <<i, execs, reduced>>
    /\ UNCHANGED <<mvars, disk, runs>>

\* line 234; `interesting` and `sig` are not read after line 231
WriteOut(w) ==
    /\ pc[w] = "write_out"
    /\ \/ /\ Panics(w, 234)                   \* Err(..).unwrap()
          /\ UNCHANGED disk
       \/ /\ disk' = FsWrite(disk, uuid[w], "out",
                             OutBytes(inp[w], stdout[w], stderr[w]))
          /\ pc' = Upd(pc, w, NextStep("write_out"))
          /\ interesting' = Upd(interesting, w, FALSE)
          /\ sig' = Upd(sig, w, 0)
          /\ UNCHANGED <<i, execs, inp, code, stdout, stderr, uuid, reduced,
                         log>>
    /\ UNCHANGED <<mvars, uuids, runs>>

\* line 235: stdout is moved into the call
WriteStdout(w) ==
    /\ pc[w] = "write_stdout"
    /\ \/ /\ Panics(w, 235)
          /\ UNCHANGED disk
       \/ /\ disk' = FsWrite(disk, uuid[w], "stdout", stdout[w])
          /\ stdout' = Upd(stdout, w, Nil)
          /\ pc' = Upd(pc, w, NextStep("write_stdout"))
          /\ UNCHANGED <<i, execs, inp, interesting, code, sig, stderr, uuid,
                         reduced, log>>
    /\ UNCHANGED <<mvars, uuids, runs>>

\* line 236: stderr is moved into the call
WriteStderr(w) ==
    /\ pc[w] = "write_stderr"
    /\ \/ /\ Panics(w, 236)
          /\ UNCHANGED disk
       \/ /\ disk' = FsWrite(disk, uuid[w], "stderr", stderr[w])
          /\ stderr' = Upd(stderr, w, Nil)
          /\ pc' = Upd(pc, w, NextStep("write_stderr"))
          /\ UNCHANGED <<i, execs, inp, interesting, code, sig, stdout, uuid,
                         reduced, log>>
    /\ UNCHANGED <<mvars, uuids, runs>>

\* lines 237-249: parse the candidate, hand it to treereduce_multi_pass;
\* `reduced` holds the bytes of the Original while the reducer runs
Parse(w) ==
    /\ pc[w] = "parse"
    /\ \/ Panics(w, 237)                      \* parse(..) is Err
       \/ /\ pc' = Upd(pc, w, NextStep("parse"))
          /\ reduced' = Upd(reduced, w,
                            OriginalBytes(inp[w], stdout[w], stderr[w]))
          /\ UNCHANGED <<i, execs, inp, interesting, code, sig, stdout,
                         stderr, uuid, log>>
    /\ UNCHANGED <<mvars, uuids, disk, runs>>

\* lines 250-252: the reducer returns
Reduce(w) ==
    /\ pc[w] = "reduce"
    /\ \/ /\ ReturnsFromTriage(w)             \* Err(e)
          /\ log' = Upd(log, w, Line("Failed to reduce!", 0))
       \/ /\ \E text \in Reductions(reduced[w]) :
               reduced' = Upd(reduced, w, text)
          /\ pc' = Upd(pc, w, NextStep("reduce"))
          /\ UNCHANGED <<log, inp, uuid>>
    /\ UNCHANGED <<mvars, i, execs, interesting, code, sig, stdout, stderr,
                   uuids, disk, runs>>

\* line 253: reduced.text is moved into the call; lines 254-257: return
WriteReduced(w) ==
    /\ pc[w] = "write_reduced"
    /\ \/ /\ Panics(w, 253)
          /\ UNCHANGED disk
       \/ /\ disk' = FsWrite(disk, uuid[w], "reduced.out", reduced[w])
          /\ IF NextStep("write_reduced") = RetPc
             THEN ReturnsFromTriage(w)
             ELSE /\ pc' = Upd(pc, w, NextStep("write_reduced"))
                  /\ reduced' = Upd(reduced, w, Nil)
                  /\ UNCHANGED <<inp, uuid>>
          /\ UNCHANGED <<i, execs, interesting, code, sig, stdout, stderr,
                         log>>
    /\ UNCHANGED <<mvars, uuids, runs>>

\* lines 329-334: count the execution, read the clock, report; the locals of
\* the iteration end here
Count(w) ==
    /\ pc[w] = "count"
    /\ \E now \in Elapsed(execs[w]) :
         IF (execs[w] + 1) % ReportEvery = 0 /\ now = 0
         THEN Panics(w, 333)                  \* execs / secs with secs = 0
         ELSE /\ pc' = Upd(pc, w, "iter")
              /\ execs' = Upd(execs, w, execs[w] + 1)
              /\ i' = Upd(i, w, i[w] + 1)
              /\ log' = Upd(log, w,
                            IF (execs[w] + 1) % ReportEvery = 0
                            THEN Line("execs/sec", (execs[w] + 1) \div now)
                            ELSE NoLine)
              /\ inp' = Upd(inp, w, Nil)
              /\ interesting' = Upd(interesting, w, FALSE)
              /\ code' = Upd(code, w, 0)
              /\ sig' = Upd(sig, w, 0)
              /\ stdout' = Upd(stdout, w, Nil)
              /\ stderr' = Upd(stderr, w, Nil)
              /\ uuid' = Upd(uuid, w, NoId)
              /\ reduced' = Upd(reduced, w, Nil)
    /\ UNCHANGED <<mvars, uuids, disk, runs>>

Next ==
    \/ ReadDir
    \/ LoadEntry
    \/ MakeCheck
    \/ SpawnWorker
    \/ ScopeExit
    \/ \E w \in Workers : JobEnter(w)
    \/ \E w \in Workers : Radamsa(w)
    \/ \E w \in Workers : NewBatch(w)
    \/ \E w \in Workers : Iter(w)
    \/ \E w \in Workers : Start(w)
    \/ \E w \in Workers : Wait(w)
    \/ \E w \in Workers : WriteOut(w)
    \/ \E w \in Workers : WriteStdout(w)
    \/ \E w \in Workers : WriteStderr(w)
    \/ \E w \in Workers : Parse(w)
    \/ \E w \in Workers : Reduce(w)
    \/ \E w \in Workers : WriteReduced(w)
    \/ \E w \in Workers : Count(w)

Spec == Init /\ [][Next]_vars

\* --------------------------------------------- the workers side by side
\* two oracle runs: what two triages going on at the same time take
TriageRuns == 2

\* the default command line with --jobs MaxJobs, with and without
\* --radamsa, on a directory of one seed, followed for TriageRuns runs
TriageInit ==
    \E r \in BOOLEAN :
        Start0(ArgsOf(FALSE, r, MaxJobs, NoRegexes),
               [readable |-> TRUE, entries |-> <<"ok">>], TriageRuns)

TriageSpec == TriageInit /\ [][Next]_vars

\* ------------------------------------------------- the oracle on its own
\* make_check applied to every command line clap accepts, and the oracle it
\* built run once on a child that exits
OracleInit ==
    \E d \in BOOLEAN, x \in RegexArgs :
        Start0(ArgsOf(d, FALSE, 1, x), [readable |-> TRUE, entries |-> <<>>],
               0)

OracleRun ==
    /\ chk.state = "ok"
    /\ probe = NoProbe
    /\ \E o \in ProbeOutputs :
         probe' = [state |-> "run", code |-> o.code, stdout |-> o.stdout,
                   stderr |-> o.stderr,
                   interesting |->
                       IsInteresting(chk, o.code, o.stdout, o.stderr)]
    /\ UNCHANGED <<args, chk, dir, mainPc, next_entry, files, jobs, spawned,
                   mainLog, run_cap, wvars, uuids, disk, runs>>

OracleNext ==
    \/ ReadDir
    \/ MakeCheck
    \/ OracleRun

OracleSpec == OracleInit /\ [][OracleNext]_vars

TypeOK ==
    /\ pc \in [Workers -> {"unspawned", "job", "radamsa", "batch", "iter",
                           "start", "wait", "write_out", "write_stdout",
                           "write_stderr", "parse", "reduce", "write_reduced",
                           "count", "returned", "panicked"}]
    /\ i \in [Workers -> Nat]
    /\ execs \in [Workers -> Nat]
    /\ uuids \subseteq Ids
    /\ runs \in 0..run_cap
    /\ files \subseteq 1..MaxEntries
    /\ spawned \in 0..MaxJobs

\* ================================================================ claims
\* check has returned into job and the locals of the run are still there
Returned(w) == pc[w] \in {"count", "radamsa"}

NoArtefact(id) == \A ext \in Exts : disk[File(id, ext)] = NoFile

\* ---------------------------------------------------------------------
\* C1: while the reducer runs for a candidate, crash-<id>.out,
\* crash-<id>.stdout and crash-<id>.stderr of that candidate are on disk:
\* the reducer is never started before the triple is written.
C1_TripleBeforeReduce ==
    \A w \in Workers :
        pc[w] \in {"reduce", "write_reduced"} =>
            uuid[w] \in Ids /\ HasTriple(disk, uuid[w])

C1_Witness ==
    \E w \in Workers :
        pc[w] = "reduce" /\ uuid[w] \in Ids /\ HasTriple(disk, uuid[w])

TimedOut(w) ==
    Returned(w) /\ code[w] = -1 /\ sig[w] = 0 /\ log[w] = NoLine

C3_TimeoutGoesOn ==
    /\ [](\A w \in Workers : TimedOut(w) => uuid[w] = NoId)
    /\ [][\A w \in Workers :
            (pc[w] = "wait" /\ TimedOut(w)') => disk' = disk]_vars
    /\ [][\A w \in Workers :
            (TimedOut(w) /\ pc'[w] # pc[w]) => pc'[w] \in {"iter", "start"}]_vars

\* the part of C3 that is check's own: nothing written, nothing reduced, -1
C3_TimeoutInCheck ==
    /\ [](\A w \in Workers : TimedOut(w) => uuid[w] = NoId)
    /\ [][\A w \in Workers :
            (pc[w] = "wait" /\ TimedOut(w)') => disk' = disk]_vars

\* ---------------------------------------------------------------------
\* C4: a failed write of crash-<id>.out, .stdout or .stderr never ends the
\* worker: no step taken from one of the three writes leaves it crashed.
C4_WriteFailureNotFatal ==
    [][\A w \in Workers :
          pc[w] \in {"write_out", "write_stdout", "write_stderr"} =>
              pc'[w] # "panicked"]_vars

\* ---------------------------------------------------------------------
\* C5: with a non-empty corpus no worker is ever finished or crashed.
C5_WorkerNeverEnds ==
    \A w \in Workers :
        files # {} => pc[w] \notin {"returned", "panicked"}

\* ---------------------------------------------------------------------
\* C6 as stated: an entry that cannot be read or cannot be parsed never
\* stops the loading.
FailingEntry ==
    /\ dir.entries # <<>>
    /\ Head(dir.entries) \in {"unreadable", "unparseable"}

C7_WorkerCount ==
    mainPc \in {"spawn", "done", "panicked"} =>
        jobs = (IF args.debug \/ args.radamsa THEN 1 ELSE args.jobs)

\* ---------------------------------------------------------------------
\* C8: with an empty corpus every spawned worker can only return: none
\* crashes, none starts an oracle child, no artefact is written.
C8_EmptyCorpus ==
    (mainPc \in {"spawn", "done", "panicked"} /\ files = {}) =>
        /\ \A w \in Workers : pc[w] \in {"unspawned", "job", "returned"}
        /\ runs = 0
        /\ \A id \in Ids : NoArtefact(id)
        /\ mainPc # "panicked"

C8_Witness ==
    /\ files = {}
    /\ mainPc = "done"
    /\ spawned = MaxJobs
    /\ \A w \in Workers : pc[w] = "returned"

\* ---------------------------------------------------------------------
\* C9: after a failed spawn of the child the failure is logged, nothing is
\* written or reduced, and the worker goes on to the next mutant.
SpawnFailed(w) ==
    Returned(w) /\ log[w] = Line("Problem when running target", 0)

C9_SpawnFailureGoesOn ==
    /\ [](\A w \in Workers : SpawnFailed(w) => uuid[w] = NoId /\ code[w] = -1)
    /\ [][\A w \in Workers :
            (pc[w] = "start" /\ SpawnFailed(w)') => disk' = disk]_vars
    /\ [][\A w \in Workers :
            (SpawnFailed(w) /\ pc'[w] # pc[w]) =>
                pc'[w] \in {"iter", "start"}]_vars

\* the part of C9 that is check's own: logged, nothing written, -1
C9_SpawnFailureInCheck ==
    /\ [](\A w \in Workers : SpawnFailed(w) => uuid[w] = NoId /\ code[w] = -1)
    /\ [][\A w \in Workers :
            (pc[w] = "start" /\ SpawnFailed(w)') => disk' = disk]_vars

\* ---------------------------------------------------------------------
\* C10: once crash-<id>.out of a triaged candidate is written it holds the
\* bytes that were submitted to the child, and the reducer works on those
\* same bytes.
C10_OutIsInput ==
    \A w \in Workers :
        /\ (uuid[w] \in Ids /\ pc[w] # "write_out") =>
               disk[File(uuid[w], "out")] = inp[w]
        /\ pc[w] = "reduce" => reduced[w] = inp[w]

C10_Witness ==
    \E w \in Workers, v \in Workers :
        /\ pc[w] = "reduce"
        /\ disk[File(uuid[w], "out")] = inp[w]
        /\ reduced[w] = inp[w]
        /\ v # w
        /\ inp[v] \in Mutants
        /\ inp[v] # inp[w]

\* ---------------------------------------------------------------------
\* C11: in grammar mode a worker hands at most BATCH mutants of one batch
\* (one draw of the parameters) to the oracle: a mutant is submitted only
\* from the batch loop and only while fewer than BATCH were submitted, and
\* once the batch has ended the next submission comes after a new draw,
\* which starts the count again.
InCheck(w) ==
    pc[w] \in {"start", "wait", "write_out", "write_stdout", "write_stderr",
               "parse", "reduce", "write_reduced"}

C11_BatchBound ==
    /\ [](\A w \in Workers :
            ~RadamsaMode =>
                /\ execs[w] <= BATCH
                /\ InCheck(w) => execs[w] < BATCH)
    /\ [][\A w \in Workers :
            (~RadamsaMode /\ pc'[w] = "start" /\ pc[w] # "start") =>
                pc[w] = "iter" /\ execs[w] < BATCH]_vars
    /\ [][\A w \in Workers :
            (pc[w] = "iter" /\ execs[w] = BATCH /\ pc'[w] # "iter") =>
                pc'[w] = "batch"]_vars
    /\ [][\A w \in Workers :
            (pc[w] = "batch" /\ pc'[w] # "batch") =>
                pc'[w] = "iter" /\ execs'[w] = 0 /\ i'[w] = 0]_vars

C11_Witness ==
    \E w \in Workers : pc[w] = "iter" /\ i[w] = BATCH /\ execs[w] = BATCH

\* ---------------------------------------------------------------------
\* C12: when one of the user's regexes does not compile, make_check returns
\* the error and main ends with it: no worker is ever spawned and no oracle
\* child is ever started.
InvalidRegex == \E f \in RegexFields : args[f] = BadRegex

C12_InvalidRegexFatal ==
    /\ [](InvalidRegex =>
            /\ mainPc \in {"read_dir", "loading", "err"}
            /\ chk.state # "ok"
            /\ spawned = 0
            /\ runs = 0
            /\ \A w \in Workers : pc[w] = "unspawned")
    /\ [][(InvalidRegex /\ chk' # chk) =>
            /\ chk'.state = "err"
            /\ mainPc' = "err"
            /\ ("Error: " \o chk'.context) \in mainLog']_vars

C12_Witness ==
    /\ InvalidRegex
    /\ args.uninteresting_stderr = BadRegex
    /\ chk = ChkErr("Invalid uninteresting stderr regex")
    /\ mainPc = "err"
    /\ files # {}

\* ---------------------------------------------------------------------
\* C13: main has returned (or re-raised a worker's panic at the end of the
\* scope) only when every worker it spawned has ended.
C13_ScopeJoins ==
    mainPc \in {"done", "panicked"} =>
        /\ spawned = jobs
        /\ \A w \in 1..spawned : pc[w] \in {"returned", "panicked"}

C13_Witness ==
    /\ mainPc = "panicked"
    /\ spawned >= 1
    /\ files # {}
    /\ \A w \in 1..spawned : pc[w] = "panicked"

\* ---------------------------------------------------------------------
\* C14 as stated: the oracle is constructed before the seed directory is
\* read: main does not open the directory while `chk` is not built, and an
\* invalid regex is reported whatever the state of the seed directory.
C14_OracleBeforeSeeds ==
    /\ [][mainPc = "read_dir" /\ mainPc' # "read_dir" =>
              chk.state # "none"]_vars
    /\ [](mainPc = "err" /\ InvalidRegex => chk.state = "err")

\* C14 amended: main reads the seed directory and builds the corpus first,
\* then constructs the oracle, then spawns the workers: the oracle is built
\* only once the loop over the entries has ended, the corpus does not change
\* afterwards, workers are spawned only with an oracle, and an error of the
\* directory or of a seed ends main before any regex is compiled.
C14_SeedsBeforeOracle ==
    /\ [][chk' # chk =>
            /\ chk.state = "none"
            /\ mainPc = "loading"
            /\ dir.entries = <<>>]_vars
    /\ [][chk.state # "none" => files' = files /\ dir' = dir]_vars
    /\ [](spawned > 0 => chk.state = "ok")
    /\ []((mainPc = "err" /\ (~dir.readable \/ dir.entries # <<>>)) =>
            chk.state = "none")

C14_Witness ==
    /\ InvalidRegex
    /\ ~dir.readable
    /\ mainPc = "err"
    /\ chk.state = "none"
    /\ mainLog = {"Error: When reading tests from"}

\* ---------------------------------------------------------------------
\* C15 as stated: after every oracle invocation of a batch the worker counts
\* it and goes on, and at every ReportEvery-th one it prints the
\* executions per second, whatever time has elapsed since batch start.
C15_CountsAndReports ==
    [][\A w \in Workers :
          (pc[w] = "count" /\ pc'[w] # "count") =>
              /\ pc'[w] = "iter"
              /\ execs'[w] = execs[w] + 1
              /\ (execs[w] + 1) % ReportEvery = 0 =>
                     log'[w].line = "execs/sec"]_vars

\* the part of C15 that holds: a worker that goes on has counted the
\* invocation once, and has printed the rate exactly when it was due
C15_CountsWhenItGoesOn ==
    [][\A w \in Workers :
          (pc[w] = "count" /\ pc'[w] = "iter") =>
              /\ execs'[w] = execs[w] + 1
              /\ (execs[w] + 1) % ReportEvery = 0 <=>
                     log'[w].line = "execs/sec"]_vars

\* ---------------------------------------------------------------------
\* C16 as stated: with an interesting-stdout regex and no
\* uninteresting-stdout regex from the user, the oracle has no
\* uninteresting-stdout override and every stdout the interesting regex
\* matches is Interesting; the same for stderr.
C16_NoOverrideByDefault ==
    chk.state = "ok" =>
        /\ (args.interesting_stdout # None /\ args.uninteresting_stdout = None)
             => /\ chk.un_stdout_regex = None
                /\ (probe.state = "run"
                    /\ Matches(args.interesting_stdout, probe.stdout))
                     => probe.interesting
        /\ (args.interesting_stderr # None /\ args.uninteresting_stderr = None)
             => /\ chk.un_stderr_regex = None
                /\ (probe.state = "run"
                    /\ Matches(args.interesting_stderr, probe.stderr))
                     => probe.interesting

\* C16 amended: with an interesting-stdout regex and no
\* uninteresting-stdout regex from the user, the oracle is built with the
\* default uninteresting pattern as its stdout override: a stdout the
\* interesting regex matches is Interesting when the default uninteresting
\* pattern does not match it, and when that pattern matches it the stdout
\* does not make the run Interesting; the same for stderr.
OnlyStdoutCounts ==
    /\ probe.code \notin chk.interesting_exit_codes
    /\ ~Matches(chk.stderr_regex, probe.stderr)
OnlyStderrCounts ==
    /\ probe.code \notin chk.interesting_exit_codes
    /\ ~Matches(chk.stdout_regex, probe.stdout)

C16_DefaultOverride ==
    chk.state = "ok" =>
        /\ (args.interesting_stdout # None /\ args.uninteresting_stdout = None)
             => /\ chk.stdout_regex = args.interesting_stdout
                /\ chk.un_stdout_regex = DefaultUninteresting
                /\ probe.state = "run" =>
                     /\ (Matches(args.interesting_stdout, probe.stdout)
                         /\ ~Matches(DefaultUninteresting, probe.stdout))
                          => probe.interesting
                     /\ (Matches(DefaultUninteresting, probe.stdout)
                         /\ OnlyStdoutCounts) => ~probe.interesting
        /\ (args.interesting_stderr # None /\ args.uninteresting_stderr = None)
             => /\ chk.stderr_regex = args.interesting_stderr
                /\ chk.un_stderr_regex = DefaultUninteresting
                /\ probe.state = "run" =>
                     /\ (Matches(args.interesting_stderr, probe.stderr)
                         /\ ~Matches(DefaultUninteresting, probe.stderr))
                          => probe.interesting
                     /\ (Matches(DefaultUninteresting, probe.stderr)
                         /\ OnlyStderrCounts) => ~probe.interesting

C16_Witness ==
    /\ chk.state = "ok"
    /\ args.interesting_stdout = "Error"
    /\ args.uninteresting_stdout = None
    /\ probe.state = "run"
    /\ probe.stdout = "TypeError"
    /\ probe.stderr = ""
    /\ probe.code = 0
    /\ ~probe.interesting

\* ---------------------------------------------------------------------
\* C17 as stated: crash-<id>.reduced.out is written exactly when the reducer
\* returned successfully; when it failed the failure is logged, nothing is
\* written, the triple stays, and the worker goes on to the next mutant.
ReduceFailed(w) == Returned(w) /\ log[w] = Line("Failed to reduce!", 0)

C17_ReducedIffReducerOk ==
    /\ [][\A w \in Workers :
            (pc[w] = "reduce" /\ ReduceFailed(w)') => disk' = disk]_vars
    /\ [][\A w \in Workers :
            (pc[w] = "write_reduced" /\ pc'[w] # pc[w]) =>
                disk'[File(uuid[w], "reduced.out")] # NoFile]_vars
    /\ [][\A w \in Workers :
            (ReduceFailed(w) /\ pc'[w] # pc[w]) =>
                pc'[w] \in {"iter", "start"}]_vars

\* the part of C17 that is check's own: a failed reduction is logged and
\* changes no file, and a reduced file is written only by a worker whose
\* reducer returned successfully, under the identifier of its triage
C17_ReducerFailureInCheck ==
    /\ [][\A w \in Workers :
            (pc[w] = "reduce" /\ ReduceFailed(w)') => disk' = disk]_vars
    /\ [][\A id \in Ids :
            disk'[File(id, "reduced.out")] # disk[File(id, "reduced.out")] =>
                \E w \in Workers :
                    /\ pc[w] = "write_reduced"
                    /\ uuid[w] = id
                    /\ disk'[File(id, "reduced.out")] = reduced[w]]_vars

\* ---------------------------------------------------------------------
\* C18: a run whose child was killed by a signal other than 6 is triaged,
\* whatever the oracle's verdict: the signal is logged, an identifier is
\* drawn, and check does not return before the triple is on disk and the
\* reducer has been run.
C18_SignalIsTriaged ==
    /\ [][\A w \in Workers :
            (pc[w] = "wait" /\ sig'[w] \notin {0, 6}) =>
                /\ pc'[w] = "write_out"
                /\ uuid'[w] \in Ids \ uuids
                /\ log'[w] = Line("signal", sig'[w])]_vars
    /\ [][\A w \in Workers :
            (log[w].line = "signal" /\ ~Returned(w) /\ Returned(w)') =>
                /\ pc[w] \in {"reduce", "write_reduced"}
                /\ HasTriple(disk, uuid[w])]_vars

C18_Witness ==
    \E w \in Workers :
        /\ pc[w] = "write_out"
        /\ sig[w] = 11
        /\ ~interesting[w]
        /\ uuid[w] \in Ids
        /\ log[w] = Line("signal", 11)

\* ---------------------------------------------------------------------
\* C19: when the child exited (no signal, no timeout) and the oracle's
\* verdict is not interesting, check returns the exit code and nothing
\* else happens: no identifier, no line, no reduction, no file changed.
C19_UninterestingExitIsDropped ==
    [][\A w \in Workers :
          (/\ pc[w] = "wait"
           /\ pc'[w] \notin {"wait", "panicked"}
           /\ sig'[w] = 0
           /\ code'[w] >= 0
           /\ ~interesting'[w]) =>
              /\ pc'[w] = RetPc
              /\ code'[w] \in {st.n : st \in {x \in Statuses : x.kind = "exited"}}
              /\ uuid'[w] = NoId
              /\ uuids' = uuids
              /\ reduced'[w] = Nil
              /\ log'[w] = NoLine
              /\ disk' = disk]_vars

C19_Witness ==
    \E w \in Workers :
        /\ Returned(w)
        /\ code[w] = 1
        /\ sig[w] = 0
        /\ ~interesting[w]
        /\ log[w] = NoLine
        /\ uuids = {}
        /\ \A id \in Ids : NoArtefact(id)

\* ---------------------------------------------------------------------
\* C20: a crash-<id>.reduced.out on disk has crash-<id>.out, .stdout and
\* .stderr of the same id next to it; every file a triage writes carries
\* the identifier drawn at its start, which the worker keeps until the
\* triage ends and which no other triage has.
WriteStep(ext) ==
    CASE ext = "out" -> "write_out"
      [] ext = "stdout" -> "write_stdout"
      [] ext = "stderr" -> "write_stderr"
      [] ext = "reduced.out" -> "write_reduced"

C20_ReducedHasTriple ==
    /\ [](\A id \in Ids :
            disk[File(id, "reduced.out")] # NoFile => HasTriple(disk, id))
    /\ [](\A w \in Workers, v \in Workers :
            (w # v /\ uuid[w] \in Ids) => uuid[v] # uuid[w])
    /\ [][\A f \in Ids \X Exts :
            disk'[f] # disk[f] =>
                \E w \in Workers :
                    /\ uuid[w] = f[1]
                    /\ pc[w] = WriteStep(f[2])
                    /\ pc'[w] # pc[w]]_vars
    /\ [][\A w \in Workers :
            (uuid[w] \in Ids /\ uuid'[w] # uuid[w]) =>
                /\ uuid'[w] = NoId
                /\ pc[w] \in {"reduce", "write_reduced"}
                   \/ pc'[w] = "panicked"]_vars

C20_Witness ==
    \E id \in Ids, w \in Workers :
        /\ disk[File(id, "reduced.out")] # NoFile
        /\ HasTriple(disk, id)
        /\ uuid[w] \in Ids \ {id}
        /\ pc[w] = "write_stderr"
        /\ disk[File(uuid[w], "stderr")] = NoFile

====
